---------------------------- MODULE Spec2Model ----------------------------
(***************************************************************************)
(* Model of the beta monitor of src/Cali_Housing_Model.py: BetaMonitor     *)
(* (thresholds, severity, bounded history, callbacks, sampling thread)     *)
(* and QDTSystemCorrector (corrective-action log, derived parameters).     *)
(*                                                                         *)
(* Numbers.  Beta values and thresholds are exact decimals with three      *)
(* digits, held as integers in thousandths (0.310 is 310).  A correction   *)
(* factor is held in units of 1/FactorUnit and a correction parameter in   *)
(* units of 1/ParamUnit, so that every division and product of the source  *)
(* is exact; the model computes over the rationals, not over binary        *)
(* floating point.  NaN is one distinguished value for which every         *)
(* comparison is false.                                                    *)
(***************************************************************************)
EXTENDS Integers, Sequences, FiniteSets, TLC

\* ------------------------------------------------------------- bounds
\* update_beta calls per behaviour of Spec
MaxCalls == 3
\* update_beta calls per behaviour of SpecThresholds
MaxUpdates == 5
\* length of alert_callbacks
MaxCallbacks == 3
\* direct calls of apply_corrective_action per behaviour
MaxDirect == 2
\* the history limit (1000 in the source, line 225), scaled down
Capacity == 2
\* operations on the two monitors per behaviour of SpecInstances
MaxOps == 5
\* sampling threads created per behaviour
MaxThreads == 2
\* update_beta calls per behaviour of SpecThreads
MaxThreadCalls == 3

\* ---------------------------------------------------------- constants
\* BetaMonitor.__init__ defaults, in thousandths
DefaultReference == 310
DefaultAlert == 50
DefaultCritical == -50
DefaultEmergency == -150

FactorUnit == 12 * 1000
ParamUnit == 100 * FactorUnit

NaN == 1000 * 1000

\* thousandths fed to update_beta: the default thresholds themselves (50,
\* -50, -150), values inside the four bands they delimit (310, 40, -60,
\* -200; the last three are the thresholds of the second threshold set),
\* and NaN, the invalid sample
Betas == {310, 50, 40, -50, -60, -150, -200, NaN}

\* the values of the scenario of the demo's thresholds, and the alert
\* threshold: two values (50, 40) share a band
ScenarioBetas == {310, 50, 40, -60, -200}

\* metric values handed to apply_corrective_action directly: those, and one
\* above every reference
DirectBetas == Betas \cup {500}

Severities == {"NORMAL", "ALERT", "CRITICAL", "EMERGENCY"}

\* the constructor stores any four numbers: the second set is ordered like
\* the default one, the third has its alert threshold above the reference
ThresholdSets ==
    { [reference |-> DefaultReference, alert |-> DefaultAlert,
       critical |-> DefaultCritical, emergency |-> DefaultEmergency],
      [reference |-> DefaultReference, alert |-> 40,
       critical |-> -60, emergency |-> -200],
      [reference |-> 40, alert |-> DefaultAlert,
       critical |-> -60, emergency |-> -200] }

\* callables handed to register_alert_callback: the corrector's bound
\* method, the demo's printing callback, a callback that raises an Exception
CallbackKinds == {"alert_handler", "status_change_callback", "faulty"}

\* the values the sampling loop and the owning thread feed in SpecThreads
ThreadBetas == {310, -200}

\* window sizes handed to visualize_beta_history: none, fewer than, as many
\* as and more than the history can hold
Windows == 0..(Capacity + 1)

\* the value the sampling loop feeds in SpecStop
StopBetas == {-200}

\* the monitors of SpecInstances, the attributes of a monitor and of its
\* corrector that name a list, and the values fed to the two monitors (0.05
\* is ALERT for the first and NORMAL for the second)
Instances == {1, 2}
ListFields == {"beta_history", "alert_callbacks", "corrective_actions_history"}
InstanceBetas == {50, -200}

\* thread identities: the thread that owns the monitor, and the sampling
\* threads start_monitoring creates; NoThread is monitor_thread's None
Owner == 0
NoThread == 0
Samplers == 1..MaxThreads
Threads == {Owner} \cup Samplers

VARIABLES
    reference_beta, alert_threshold, critical_threshold, emergency_threshold,
    current_beta, beta_history, alert_status, alert_callbacks,
    monitor_active, monitor_thread,
    corrective_actions_history,
    calls,      \* the values passed to update_beta so far, in call order
    notified,   \* the callback invocations so far: the list position cb
                \* called with (status, beta) by update_beta(sample)
    ndirect,    \* direct apply_corrective_action calls so far
    op,         \* the operation that produced this state: its name, its
                \* arguments where a claim needs them, whether it raised to
                \* its caller, and what it returned (<< >>: nothing)
    pc,         \* where each thread is
    loc,        \* each thread's local variables
    after_stop, \* per sampling thread: the update_beta calls and the sleeps
                \* it began while monitor_active was False
    instances   \* two more monitors, each with its corrector: their
                \* attributes, and the list objects their attributes name

vars == << reference_beta, alert_threshold, critical_threshold,
           emergency_threshold, current_beta, beta_history, alert_status,
           alert_callbacks, monitor_active, monitor_thread,
           corrective_actions_history, calls, notified, ndirect, op,
           pc, loc, after_stop, instances >>

thresholdVars == << reference_beta, alert_threshold, critical_threshold,
                    emergency_threshold >>
threadVars == << monitor_active, monitor_thread, pc, loc, after_stop >>

\* ------------------------------------------------------------ helpers
Min(a, b) == IF b < a THEN b ELSE a

\* Python's float <=: false as soon as one side is NaN
Leq(a, b) == a # NaN /\ b # NaN /\ a <= b

\* s[-n:]
LastN(s, n) == SubSeq(s, IF Len(s) > n THEN Len(s) - n + 1 ELSE 1, Len(s))

\* s[i:] for an index i of either sign
SliceFrom(s, i) ==
    LET n == Len(s)
        start == IF i < 0 THEN (IF n + i < 0 THEN 0 ELSE n + i)
                 ELSE Min(i, n)
    IN  SubSeq(s, start + 1, n)

\* ------------------------------------------------------- BetaMonitor
\* visualize_beta_history, line 315: the samples to plot
WindowOfHistory(h, window_size) ==
    IF Len(h) > window_size THEN SliceFrom(h, 0 - window_size) ELSE h

\* the classification with exclusive thresholds (< for <=)
ClassifyStrict(v, emergency, critical, alert) ==
    IF v # NaN /\ v < emergency THEN "EMERGENCY"
    ELSE IF v # NaN /\ v < critical THEN "CRITICAL"
    ELSE IF v # NaN /\ v < alert THEN "ALERT"
    ELSE "NORMAL"

\* the classification with a value equal to the alert threshold left NORMAL
ClassifyAboveOrAtAlert(v, emergency, critical, alert) ==
    IF Leq(v, emergency) THEN "EMERGENCY"
    ELSE IF Leq(v, critical) THEN "CRITICAL"
    ELSE IF v # NaN /\ v < alert THEN "ALERT"
    ELSE "NORMAL"

\* update_beta, lines 231-238
Classify(v, emergency, critical, alert) ==
    IF Leq(v, emergency) THEN "EMERGENCY"
    ELSE IF Leq(v, critical) THEN "CRITICAL"
    ELSE IF Leq(v, alert) THEN "ALERT"
    ELSE "NORMAL"

\* a level-triggered test: true on every sample of a non-NORMAL severity
StatusChangedOrAbnormal(previous_status, status) ==
    previous_status # status \/ status # "NORMAL"

\* update_beta, line 241: the test that guards the notification
StatusChanged(previous_status, status) == previous_status # status

\* a trim that keeps the oldest Capacity entries ([:n] for [-n:])
AppendTrimOldest(h, v) ==
    LET a == Append(h, v)
    IN  IF Len(a) > Capacity THEN SubSeq(a, 1, Capacity) ELSE a

\* update_beta, lines 222-226: append, then trim to the last Capacity
AppendTrim(h, v) ==
    LET a == Append(h, v)
    IN  IF Len(a) > Capacity THEN LastN(a, Capacity) ELSE a

\* -------------------------------------------------- QDTSystemCorrector
\* the quotient without its cap
UncappedQuotient(cap, needed, divisor) ==
    IF needed = NaN THEN cap
    ELSE (needed * FactorUnit) \div divisor

\* min(cap, correction_needed / divisor): Python's min(a, b) keeps a unless
\* b < a, so a NaN quotient yields the cap
CappedQuotient(cap, needed, divisor) ==
    IF needed = NaN THEN cap
    ELSE Min(cap, (needed * FactorUnit) \div divisor)

\* a deviation taken from the sample: current_beta - reference_beta
MinusSwapped(a, b) == IF a = NaN \/ b = NaN THEN NaN ELSE b - a

\* line 366: the subtraction, NaN when either side is
Minus(a, b) == IF a = NaN \/ b = NaN THEN NaN ELSE a - b

\* apply_corrective_action, lines 366-384: the factor, in 1/FactorUnit
CorrectionFactor(status, beta, reference) ==
    LET correction_needed == Minus(reference, beta)
    IN  IF status = "EMERGENCY"
          THEN CappedQuotient(FactorUnit, correction_needed, 500)
        ELSE IF status = "CRITICAL"
          THEN CappedQuotient((7 * FactorUnit) \div 10, correction_needed, 600)
        ELSE CappedQuotient((3 * FactorUnit) \div 10, correction_needed, 800)

\* apply_corrective_action, lines 368-383: the action name
ActionName(status) ==
    IF status = "EMERGENCY" THEN "EMERGENCY_RESET"
    ELSE IF status = "CRITICAL" THEN "STRONG_CORRECTION"
    ELSE "GENTLE_CORRECTION"

\* apply_corrective_action, lines 390-396: the log with the new entry
\* (the wall-clock timestamp of the entry is not modelled)
ApplyCorrectiveActionLog(log, status, beta, reference) ==
    Append(log, [alert_status      |-> status,
                 beta_value        |-> beta,
                 action            |-> ActionName(status),
                 correction_factor |-> CorrectionFactor(status, beta, reference)])

\* a handler without the test of line 359
AlertHandlerLogAlways(log, status, beta, reference) ==
    ApplyCorrectiveActionLog(log, status, beta, reference)

\* alert_handler, lines 355-360
AlertHandlerLog(log, status, beta, reference) ==
    IF status \in {"ALERT", "CRITICAL", "EMERGENCY"}
    THEN ApplyCorrectiveActionLog(log, status, beta, reference)
    ELSE log

\* parameters derived from the first entry of the log ([0] for [-1])
CorrectionParametersOfFirst(log) ==
    IF log = << >>
    THEN [void_energy_boost |-> 0, lambda_adjustment |-> 0,
          gamma_increase |-> 0, stabilization_factor |-> ParamUnit]
    ELSE LET f == log[1].correction_factor
             m == IF log[1].action = "EMERGENCY_RESET" THEN << 50, 10, 20, 100 >>
                  ELSE IF log[1].action = "STRONG_CORRECTION"
                       THEN << 30, 5, 10, 70 >>
                  ELSE << 10, 2, 5, 30 >>
         IN  [void_energy_boost |-> m[1] * f, lambda_adjustment |-> m[2] * f,
              gamma_increase |-> m[3] * f,
              stabilization_factor |-> ParamUnit + m[4] * f]

\* get_correction_parameters, lines 400-436, in 1/ParamUnit
CorrectionParameters(log) ==
    IF log = << >>
    THEN [void_energy_boost |-> 0, lambda_adjustment |-> 0,
          gamma_increase |-> 0, stabilization_factor |-> ParamUnit]
    ELSE LET last_correction == log[Len(log)]
             correction_factor == last_correction.correction_factor
         IN  IF last_correction.action = "EMERGENCY_RESET"
             THEN [void_energy_boost    |-> 50 * correction_factor,
                   lambda_adjustment    |-> 10 * correction_factor,
                   gamma_increase       |-> 20 * correction_factor,
                   stabilization_factor |-> ParamUnit + 100 * correction_factor]
             ELSE IF last_correction.action = "STRONG_CORRECTION"
             THEN [void_energy_boost    |-> 30 * correction_factor,
                   lambda_adjustment    |-> 5 * correction_factor,
                   gamma_increase       |-> 10 * correction_factor,
                   stabilization_factor |-> ParamUnit + 70 * correction_factor]
             ELSE [void_energy_boost    |-> 10 * correction_factor,
                   lambda_adjustment    |-> 2 * correction_factor,
                   gamma_increase       |-> 5 * correction_factor,
                   stabilization_factor |-> ParamUnit + 30 * correction_factor]

\* ------------------------------------------------------ notification
\* what one callback does when called with (status, beta): the corrector's
\* handler may append to the log, "faulty" raises an Exception
CallbackLog(kind, log, status, beta, reference) ==
    IF kind = "alert_handler"
    THEN AlertHandlerLog(log, status, beta, reference)
    ELSE log

CallbackRaises(kind) == kind = "faulty"

\* a notification loop without the try/except of lines 247-250
ExceptionNotCaught(kind) == FALSE

\* _notify_callbacks, line 249: "except Exception" catches what a callback
\* raises, so the loop goes on to the next callback
ExceptionCaught(kind) == TRUE

\* _notify_callbacks, lines 244-250, run to its end without interleaving:
\* st = [log, notified, raised]; the callbacks from index i on are called in
\* list order with the monitor's status and value
RECURSIVE NotifyFrom(_, _, _, _, _, _)
NotifyFrom(i, cbs, st, status, beta, reference) ==
    IF i > Len(cbs) THEN st
    ELSE LET called == [st EXCEPT
                 !.notified = Append(@, [cb |-> i, status |-> status,
                                         beta |-> beta, sample |-> beta]),
                 !.log = CallbackLog(cbs[i], @, status, beta, reference)]
         IN  IF CallbackRaises(cbs[i]) /\ ~ExceptionCaught(cbs[i])
             THEN [called EXCEPT !.raised = TRUE]
             ELSE NotifyFrom(i + 1, cbs, called, status, beta, reference)

\* a notification loop that walks the list from its end
RECURSIVE NotifyDownFrom(_, _, _, _, _, _)
NotifyDownFrom(i, cbs, st, status, beta, reference) ==
    IF i < 1 THEN st
    ELSE LET called == [st EXCEPT
                 !.notified = Append(@, [cb |-> i, status |-> status,
                                         beta |-> beta, sample |-> beta]),
                 !.log = CallbackLog(cbs[i], @, status, beta, reference)]
         IN  NotifyDownFrom(i - 1, cbs, called, status, beta, reference)

NotifyCallbacksReversed(cbs, st, status, beta, reference) ==
    NotifyDownFrom(Len(cbs), cbs, st, status, beta, reference)

NotifyCallbacks(cbs, st, status, beta, reference) ==
    NotifyFrom(1, cbs, st, status, beta, reference)

\* the locals of a thread outside update_beta
NoLocals == [new_beta |-> 0, previous_status |-> "NORMAL", tmp |-> << >>,
             i |-> 0, arg_status |-> "NORMAL"]

\* ---------------------------------------------------- two instances
\* the list object an attribute of instance i names: __init__ evaluates a
\* list display for each instance (lines 165, 167, 350), here with every
\* attribute naming one object of the class
ListOfClass(i, field) == << 1, field >>

\* lines 165, 167 and 350: self.<field> = [], a new list per instance
ListOf(i, field) == << i, field >>

\* m1 = BetaMonitor(); c1 = QDTSystemCorrector(m1);
\* m2 = BetaMonitor(0.310, 0.04, -0.06, -0.20); c2 = QDTSystemCorrector(m2)
InitInstances ==
    [attrs |-> [i \in Instances |->
                  [reference_beta |-> DefaultReference,
                   alert_threshold |-> IF i = 1 THEN DefaultAlert ELSE 40,
                   critical_threshold |-> IF i = 1 THEN DefaultCritical ELSE -60,
                   emergency_threshold |->
                       IF i = 1 THEN DefaultEmergency ELSE -200,
                   current_beta |-> DefaultReference,
                   alert_status |-> "NORMAL",
                   monitor_active |-> FALSE,
                   loops |-> 0]],
     lists |-> [l \in Instances \X ListFields |->
                  IF l[2] = "alert_callbacks" THEN << "alert_handler" >>
                  ELSE << >>],
     nops |-> 0]

\* nothing begun since the flag was cleared
NoneAfterStop == [updates |-> 0, sleeps |-> 0]

\* thread t begins a time.sleep(interval), line 280 or 284
SleepBegins(t) ==
    IF t \in Samplers /\ ~monitor_active
    THEN [after_stop EXCEPT ![t].sleeps = @ + 1]
    ELSE after_stop

\* ------------------------------------------------------------- Init
\* monitor = BetaMonitor(...), and the corrector's empty log
InitMonitor(thresholds) ==
    /\ reference_beta = thresholds.reference
    /\ alert_threshold = thresholds.alert
    /\ critical_threshold = thresholds.critical
    /\ emergency_threshold = thresholds.emergency
    /\ current_beta = thresholds.reference
    /\ beta_history = << >>
    /\ alert_status = "NORMAL"
    /\ loc = [t \in Threads |-> NoLocals]
    /\ after_stop = [t \in Samplers |-> NoneAfterStop]
    /\ instances = InitInstances
    /\ corrective_actions_history = << >>
    /\ calls = << >>
    /\ notified = << >>
    /\ ndirect = 0
    /\ op = [name |-> "init", args |-> << >>,
             raised |-> FALSE, result |-> << >>]

\* lines 169-170: no sampling thread yet
NotStarted ==
    /\ monitor_active = FALSE
    /\ monitor_thread = NoThread
    /\ pc = [t \in Threads |-> IF t = Owner THEN "idle" ELSE "unborn"]

\* line 167: a monitor nothing has registered with
NoCallbacks == alert_callbacks = << >>

\* corrector = QDTSystemCorrector(monitor): line 353 registers its handler
WithCorrector == alert_callbacks = << "alert_handler" >>

\* BetaMonitor() with the default thresholds
InitDefaultMonitor ==
    InitMonitor([reference |-> DefaultReference, alert |-> DefaultAlert,
                 critical |-> DefaultCritical, emergency |-> DefaultEmergency])

\* the monitor and the corrector as the demo builds them
InitDefault == InitDefaultMonitor /\ WithCorrector

\* a default monitor alone, or with a corrector
Init == InitDefaultMonitor /\ (NoCallbacks \/ WithCorrector) /\ NotStarted

\* the demo's monitor and corrector, no sampling thread started
InitStopped == InitDefault /\ NotStarted

\* BetaMonitor(reference_beta, alert_threshold, critical_threshold,
\* emergency_threshold) with any of the threshold sets
InitThresholds ==
    /\ \E thresholds \in ThresholdSets : InitMonitor(thresholds)
    /\ WithCorrector
    /\ NotStarted

\* ---------------------------------------------------------- actions
\* an update_beta that records and classifies only a sample of another
\* severity than the current one
UpdateBetaResultOnChange(m, new_beta) ==
    LET status == Classify(new_beta, emergency_threshold, critical_threshold,
                           alert_threshold)
        st0 == [log |-> m.log, notified |-> m.notified, raised |-> FALSE]
        st == NotifyCallbacks(alert_callbacks, st0, status, new_beta,
                              reference_beta)
    IN  IF status = m.status
        THEN [current |-> m.current, history |-> m.history,
              status |-> m.status, log |-> m.log, notified |-> m.notified,
              raised |-> FALSE]
        ELSE [current  |-> new_beta,
              history  |-> AppendTrim(m.history, new_beta),
              status   |-> status,
              log      |-> st.log,
              notified |-> st.notified,
              raised   |-> st.raised]

\* update_beta(new_beta), lines 215-242, run from its first statement to
\* its return with no other call of the monitor in between, on a monitor
\* m = [current, history, status, log, notified]
UpdateBetaResult(m, new_beta) ==
    LET previous_status == m.status
        status == Classify(new_beta, emergency_threshold, critical_threshold,
                           alert_threshold)
        st0 == [log |-> m.log, notified |-> m.notified, raised |-> FALSE]
        st == IF StatusChanged(previous_status, status)
              THEN NotifyCallbacks(alert_callbacks, st0, status, new_beta,
                                   reference_beta)
              ELSE st0
    IN  [current  |-> new_beta,
         history  |-> AppendTrim(m.history, new_beta),
         status   |-> status,
         log      |-> st.log,
         notified |-> st.notified,
         raised   |-> st.raised]

\* update_beta(new_beta) called by the only thread that uses the monitor
UpdateBeta(new_beta) ==
    LET r == UpdateBetaResult([current |-> current_beta,
                               history |-> beta_history,
                               status |-> alert_status,
                               log |-> corrective_actions_history,
                               notified |-> notified], new_beta)
    IN  /\ current_beta' = r.current
        /\ beta_history' = r.history
        /\ alert_status' = r.status
        /\ corrective_actions_history' = r.log
        /\ notified' = r.notified
        /\ calls' = Append(calls, new_beta)
        /\ op' = [name |-> "update_beta", args |-> << >>,
                  raised |-> r.raised, result |-> << >>]
        /\ UNCHANGED << instances, thresholdVars, threadVars, alert_callbacks, ndirect >>

\* register_alert_callback(callback), lines 172-178
RegisterAlertCallback(kind) ==
    /\ alert_callbacks' = Append(alert_callbacks, kind)
    /\ op' = [name |-> "register_alert_callback", args |-> << >>,
              raised |-> FALSE,
              result |-> << >>]
    /\ UNCHANGED << instances, thresholdVars, threadVars, current_beta, beta_history,
                    alert_status, corrective_actions_history, calls, notified,
                    ndirect >>

\* corrector.apply_corrective_action(status, beta) called by the owner of the
\* corrector, as the demo does at lines 499-501
ApplyCorrectiveAction(status, beta) ==
    /\ corrective_actions_history' =
          ApplyCorrectiveActionLog(corrective_actions_history, status, beta,
                                   reference_beta)
    /\ ndirect' = ndirect + 1
    /\ op' = [name |-> "apply_corrective_action", args |-> << status, beta >>,
              raised |-> FALSE,
              result |-> << corrective_actions_history'[
                               Len(corrective_actions_history')].correction_factor >>]
    /\ UNCHANGED << instances, thresholdVars, threadVars, current_beta, beta_history,
                    alert_status, alert_callbacks, calls, notified >>

\* a get_correction_parameters that takes the entry it reads off the log
GetCorrectionParametersConsuming ==
    /\ op' = [name |-> "get_correction_parameters", args |-> << >>,
              raised |-> FALSE,
              result |-> << CorrectionParameters(corrective_actions_history) >>]
    /\ corrective_actions_history' =
          SubSeq(corrective_actions_history, 1,
                 Len(corrective_actions_history) - 1)
    /\ UNCHANGED << instances, thresholdVars, threadVars, current_beta,
                    beta_history, alert_status, alert_callbacks,
                    calls, notified, ndirect >>

\* corrector.get_correction_parameters(), lines 400-436
GetCorrectionParameters ==
    /\ op' = [name |-> "get_correction_parameters", args |-> << >>,
              raised |-> FALSE,
              result |-> << CorrectionParameters(corrective_actions_history) >>]
    /\ UNCHANGED << instances, thresholdVars, threadVars, current_beta, beta_history,
                    alert_status, alert_callbacks, corrective_actions_history,
                    calls, notified, ndirect >>

\* monitor.visualize_beta_history(window_size), lines 309-341, called by the
\* only thread that uses the monitor: line 315 takes the window, line 330
\* indexes its last element (an IndexError when there is none); the drawing
\* itself changes nothing of the monitor
VisualizeBetaHistory(window_size) ==
    LET history == WindowOfHistory(beta_history, window_size)
    IN  /\ op' = [name |-> "visualize_beta_history",
                  args |-> << window_size >>,
                  raised |-> (history = << >>),
                  result |-> << history >>]
        /\ UNCHANGED << instances, thresholdVars, threadVars, current_beta, beta_history,
                        alert_status, alert_callbacks,
                        corrective_actions_history, calls, notified, ndirect >>

\* the demo's monitor and corrector driven by one thread, one call at a
\* time, with callbacks registered at any moment
Next ==
    \/ \E v \in ScenarioBetas : Len(calls) < MaxCalls /\ UpdateBeta(v)
    \/ \E k \in CallbackKinds \ {"alert_handler"} :
          Len(alert_callbacks) < MaxCallbacks /\ RegisterAlertCallback(k)
    \/ GetCorrectionParameters

Spec == Init /\ [][Next]_vars

\* the demo's monitor fed by one thread and plotted with any window
NextWindow ==
    \/ \E v \in ScenarioBetas : Len(calls) < MaxCalls /\ UpdateBeta(v)
    \/ \E w \in Windows : VisualizeBetaHistory(w)

SpecWindow == InitStopped /\ [][NextWindow]_vars

\* a monitor with any threshold set and its corrector, fed any value
NextThresholds ==
    \/ \E v \in Betas : Len(calls) < MaxUpdates /\ UpdateBeta(v)
    \/ GetCorrectionParameters

SpecThresholds == InitThresholds /\ [][NextThresholds]_vars

\* the corrector called directly by its owner
NextCorrector ==
    \/ \E s \in Severities, v \in DirectBetas :
          ndirect < MaxDirect /\ ApplyCorrectiveAction(s, v)
    \/ GetCorrectionParameters

SpecCorrector == InitThresholds /\ [][NextCorrector]_vars

\* ------------------------------------------------------------ threads
\* The monitor takes no lock, so a thread inside update_beta can be
\* preempted between any two accesses of the monitor's attributes.  Each
\* action below is one such access by thread t, in the order of the source.

\* what the return of update_beta does to thread t: the owning thread is
\* back at its caller, the sampling loop goes on to time.sleep (line 280), or
\* to the sleep of its except clause (line 284) when update_beta raised
Return(t, raised) ==
    /\ pc' = [pc EXCEPT ![t] = IF t = Owner THEN "idle"
                               ELSE IF raised THEN "sleep_except" ELSE "sleep"]
    /\ loc' = [loc EXCEPT ![t] = NoLocals]
    /\ op' = IF t = Owner
             THEN [name |-> "update_beta", args |-> << >>,
                   raised |-> raised, result |-> << >>]
             ELSE op
    /\ after_stop' = SleepBegins(t)

\* line 221: self.current_beta = new_beta
U_Current(t) ==
    /\ pc[t] = "u_current"
    /\ current_beta' = loc[t].new_beta
    /\ pc' = [pc EXCEPT ![t] = "u_append"]
    /\ UNCHANGED << instances, thresholdVars, after_stop,
                    beta_history, alert_status, alert_callbacks,
                    monitor_active, monitor_thread, corrective_actions_history,
                    calls, notified, ndirect, op, loc >>

\* an update_beta that has not appended the sample when it notifies
U_AppendDeferred(t) ==
    /\ pc[t] = "u_append"
    /\ pc' = [pc EXCEPT ![t] = "u_len"]
    /\ UNCHANGED << instances, thresholdVars, after_stop, current_beta,
                    beta_history, alert_status, alert_callbacks,
                    monitor_active, monitor_thread,
                    corrective_actions_history, calls, notified, ndirect, op,
                    loc >>

\* line 222: self.beta_history.append(new_beta)
U_Append(t) ==
    /\ pc[t] = "u_append"
    /\ beta_history' = Append(beta_history, loc[t].new_beta)
    /\ pc' = [pc EXCEPT ![t] = "u_len"]
    /\ UNCHANGED << instances, thresholdVars, after_stop,
                    current_beta, alert_status, alert_callbacks,
                    monitor_active, monitor_thread, corrective_actions_history,
                    calls, notified, ndirect, op, loc >>

\* line 225: if len(self.beta_history) > 1000
U_Len(t) ==
    /\ pc[t] = "u_len"
    /\ pc' = [pc EXCEPT ![t] = IF Len(beta_history) > Capacity
                               THEN "u_slice" ELSE "u_prev"]
    /\ UNCHANGED << instances, thresholdVars, after_stop,
                    current_beta, beta_history, alert_status,
                    alert_callbacks, monitor_active, monitor_thread,
                    corrective_actions_history, calls, notified, ndirect, op,
                    loc >>

\* line 226, right-hand side: self.beta_history[-1000:], a new list
U_Slice(t) ==
    /\ pc[t] = "u_slice"
    /\ loc' = [loc EXCEPT ![t].tmp = LastN(beta_history, Capacity)]
    /\ pc' = [pc EXCEPT ![t] = "u_store"]
    /\ UNCHANGED << instances, thresholdVars, after_stop,
                    current_beta, beta_history, alert_status,
                    alert_callbacks, monitor_active, monitor_thread,
                    corrective_actions_history, calls, notified, ndirect, op >>

\* line 226, assignment: self.beta_history = <the new list>
U_Store(t) ==
    /\ pc[t] = "u_store"
    /\ beta_history' = loc[t].tmp
    /\ loc' = [loc EXCEPT ![t].tmp = << >>]
    /\ pc' = [pc EXCEPT ![t] = "u_prev"]
    /\ UNCHANGED << instances, thresholdVars, after_stop,
                    current_beta, alert_status, alert_callbacks,
                    monitor_active, monitor_thread, corrective_actions_history,
                    calls, notified, ndirect, op >>

\* line 229: previous_status = self.alert_status
U_Prev(t) ==
    /\ pc[t] = "u_prev"
    /\ loc' = [loc EXCEPT ![t].previous_status = alert_status]
    /\ pc' = [pc EXCEPT ![t] = "u_classify"]
    /\ UNCHANGED << instances, thresholdVars, after_stop,
                    current_beta, beta_history, alert_status,
                    alert_callbacks, monitor_active, monitor_thread,
                    corrective_actions_history, calls, notified, ndirect, op >>

\* lines 231-238: the comparisons of the local new_beta with the (never
\* reassigned) thresholds, and the one assignment of self.alert_status
U_Classify(t) ==
    /\ pc[t] = "u_classify"
    /\ alert_status' = Classify(loc[t].new_beta, emergency_threshold,
                                critical_threshold, alert_threshold)
    /\ pc' = [pc EXCEPT ![t] = "u_changed"]
    /\ UNCHANGED << instances, thresholdVars, after_stop,
                    current_beta, beta_history, alert_callbacks,
                    monitor_active, monitor_thread, corrective_actions_history,
                    calls, notified, ndirect, op, loc >>

\* line 241: if previous_status != self.alert_status (the attribute is read
\* again), then line 246 starts the iteration of self.alert_callbacks
U_Changed(t) ==
    /\ pc[t] = "u_changed"
    /\ IF StatusChanged(loc[t].previous_status, alert_status)
       THEN /\ pc' = [pc EXCEPT ![t] = "n_status"]
            /\ loc' = [loc EXCEPT ![t].i = 1]
            /\ op' = op
            /\ after_stop' = after_stop
       ELSE Return(t, FALSE)
    /\ UNCHANGED << instances, thresholdVars, current_beta, beta_history, alert_status,
                    alert_callbacks, monitor_active, monitor_thread,
                    corrective_actions_history, calls, notified, ndirect >>

\* line 246: the list iterator yields the next callback or ends the loop;
\* line 248: the first argument, self.alert_status, is read
N_Status(t) ==
    /\ pc[t] = "n_status"
    /\ IF loc[t].i > Len(alert_callbacks)
       THEN Return(t, FALSE)
       ELSE /\ pc' = [pc EXCEPT ![t] = "n_call"]
            /\ loc' = [loc EXCEPT ![t].arg_status = alert_status]
            /\ op' = op
            /\ after_stop' = after_stop
    /\ UNCHANGED << instances, thresholdVars, current_beta, beta_history, alert_status,
                    alert_callbacks, monitor_active, monitor_thread,
                    corrective_actions_history, calls, notified, ndirect >>

\* line 248: the second argument, self.current_beta, is read and the
\* callback runs; lines 249-250 catch what it raises
N_Call(t) ==
    /\ pc[t] = "n_call"
    /\ LET i == loc[t].i
           kind == alert_callbacks[i]
           status == loc[t].arg_status
       IN  /\ notified' = Append(notified, [cb |-> i, status |-> status,
                                            beta |-> current_beta,
                                            sample |-> loc[t].new_beta])
           /\ corrective_actions_history' =
                 CallbackLog(kind, corrective_actions_history, status,
                             current_beta, reference_beta)
           /\ IF CallbackRaises(kind) /\ ~ExceptionCaught(kind)
              THEN Return(t, TRUE)
              ELSE /\ pc' = [pc EXCEPT ![t] = "n_status"]
                   /\ loc' = [loc EXCEPT ![t].i = i + 1]
                   /\ op' = op
                   /\ after_stop' = after_stop
    /\ UNCHANGED << instances, thresholdVars, current_beta, beta_history, alert_status,
                    alert_callbacks, monitor_active, monitor_thread, calls,
                    ndirect >>

\* one step of thread t inside update_beta
UpdateBetaStep(t) ==
    \/ U_Current(t)
    \/ U_Append(t)
    \/ U_Len(t)
    \/ U_Slice(t)
    \/ U_Store(t)
    \/ U_Prev(t)
    \/ U_Classify(t)
    \/ U_Changed(t)
    \/ N_Status(t)
    \/ N_Call(t)

\* the owning thread calls monitor.update_beta(v), as the demo at line 508
OwnerUpdateBeta(v) ==
    /\ pc[Owner] = "idle"
    /\ pc' = [pc EXCEPT ![Owner] = "u_current"]
    /\ loc' = [loc EXCEPT ![Owner].new_beta = v]
    /\ calls' = Append(calls, v)
    /\ UNCHANGED << instances, thresholdVars, after_stop,
                    current_beta, beta_history, alert_status,
                    alert_callbacks, monitor_active, monitor_thread,
                    corrective_actions_history, notified, ndirect, op >>

\* the owning thread reads monitor.current_beta, monitor.alert_status and
\* monitor.beta_history (here in one instant: the best case for a reader)
ReadSnapshot ==
    /\ pc[Owner] = "idle"
    /\ op' = [name |-> "read", args |-> << >>,
              raised |-> FALSE,
              result |-> << [current |-> current_beta, status |-> alert_status,
                             history |-> beta_history] >>]
    /\ UNCHANGED << instances, thresholdVars, after_stop,
                    current_beta, beta_history, alert_status,
                    alert_callbacks, monitor_active, monitor_thread,
                    corrective_actions_history, calls, notified, ndirect,
                    pc, loc >>

\* a callback running in the owning thread (line 248) reads the monitor it
\* is called by: its current value, its severity, its history
CallbackReadsMonitor ==
    /\ pc[Owner] = "n_call"
    /\ op' = [name |-> "read", args |-> << >>,
              raised |-> FALSE,
              result |-> << [current |-> current_beta, status |-> alert_status,
                             history |-> beta_history] >>]
    /\ UNCHANGED << instances, thresholdVars, after_stop, current_beta,
                    beta_history, alert_status, alert_callbacks,
                    monitor_active, monitor_thread,
                    corrective_actions_history, calls, notified, ndirect,
                    pc, loc >>

\* the thread object line 286 would create next
NewThread(t) ==
    /\ t \in Samplers
    /\ pc[t] = "unborn"
    /\ \A u \in Samplers : u < t => pc[u] # "unborn"

\* start_monitoring, lines 252-289, called by the owning thread: a return
\* at line 262 when the flag is set, else the flag is set and a new thread
\* is stored in monitor_thread and started
StartMonitoring ==
    /\ pc[Owner] = "idle"
    /\ op' = [name |-> "start_monitoring", args |-> << >>,
              raised |-> FALSE, result |-> << >>]
    /\ IF monitor_active
       THEN UNCHANGED << monitor_active, monitor_thread, pc, after_stop >>
       ELSE \E t \in Samplers :
               /\ NewThread(t)
               /\ monitor_active' = TRUE
               /\ monitor_thread' = t
               /\ pc' = [pc EXCEPT ![t] = "test"]
               /\ after_stop' = [u \in Samplers |-> NoneAfterStop]
    /\ UNCHANGED << instances, thresholdVars, current_beta, beta_history, alert_status,
                    alert_callbacks, corrective_actions_history, calls,
                    notified, ndirect, loc >>

\* stop_monitoring, lines 293-295: the flag is cleared, then the owning
\* thread waits in join(timeout=1.0) when a thread was ever started
StopMonitoring ==
    /\ pc[Owner] = "idle"
    /\ monitor_active' = FALSE
    /\ IF monitor_thread # NoThread
       THEN /\ pc' = [pc EXCEPT ![Owner] = "join"]
            /\ op' = op
       ELSE /\ pc' = pc
            /\ op' = [name |-> "stop_monitoring", args |-> << >>,
                      raised |-> FALSE,
                      result |-> << >>]
    /\ UNCHANGED << instances, thresholdVars, after_stop,
                    current_beta, beta_history, alert_status,
                    alert_callbacks, monitor_thread, corrective_actions_history,
                    calls, notified, ndirect, loc >>

\* line 295: join returns because the thread has ended
JoinReturns ==
    /\ pc[Owner] = "join"
    /\ pc[monitor_thread] = "done"
    /\ pc' = [pc EXCEPT ![Owner] = "idle"]
    /\ op' = [name |-> "stop_monitoring", args |-> << >>,
              raised |-> FALSE,
              result |-> << "joined" >>]
    /\ UNCHANGED << instances, thresholdVars, after_stop,
                    current_beta, beta_history, alert_status,
                    alert_callbacks, monitor_active, monitor_thread,
                    corrective_actions_history, calls, notified, ndirect,
                    loc >>

\* where a sampling thread can stay longer than join's timeout: in
\* time.sleep(interval), in the state provider, in a callback
Blocking == {"sleep", "sleep_except", "provider", "n_call"}

\* a join that raises when its timeout expires
JoinTimeoutIsError == TRUE

\* line 295: Thread.join(timeout) returns None when the timeout expires
JoinTimeoutRaises == FALSE

\* line 295: join returns after its timeout, the thread still running
JoinTimesOut ==
    /\ pc[Owner] = "join"
    /\ pc[monitor_thread] \in Blocking
    /\ pc' = [pc EXCEPT ![Owner] = "idle"]
    /\ op' = [name |-> "stop_monitoring", args |-> << >>,
              raised |-> JoinTimeoutRaises,
              result |-> << "timeout" >>]
    /\ UNCHANGED << instances, thresholdVars, after_stop,
                    current_beta, beta_history, alert_status,
                    alert_callbacks, monitor_active, monitor_thread,
                    corrective_actions_history, calls, notified, ndirect,
                    loc >>

\* a loop that never looks at the flag (while True)
LoopForever(flag) == TRUE

\* line 268: the condition of the while
LoopContinues(flag) == flag

\* monitor_loop, line 268: while self.monitor_active
L_Test(t) ==
    /\ pc[t] = "test"
    /\ pc' = [pc EXCEPT ![t] = IF LoopContinues(monitor_active)
                               THEN "provider" ELSE "done"]
    /\ UNCHANGED << instances, thresholdVars, after_stop,
                    current_beta, beta_history, alert_status,
                    alert_callbacks, monitor_active, monitor_thread,
                    corrective_actions_history, calls, notified, ndirect, op,
                    loc >>

\* lines 270-272: state_provider() returns, calculate_effective_beta gives
\* v, and update_beta(v) is called
L_Provider(t, v) ==
    /\ pc[t] = "provider"
    /\ pc' = [pc EXCEPT ![t] = "u_current"]
    /\ loc' = [loc EXCEPT ![t].new_beta = v]
    /\ calls' = Append(calls, v)
    /\ after_stop' = IF monitor_active THEN after_stop
                   ELSE [after_stop EXCEPT ![t].updates = @ + 1]
    /\ UNCHANGED << instances, thresholdVars, current_beta, beta_history, alert_status,
                    alert_callbacks, monitor_active, monitor_thread,
                    corrective_actions_history, notified, ndirect, op >>

\* a loop whose try has no except clause
ProviderFaultNotCaught == FALSE

\* line 282: "except Exception" encloses lines 270-281
ProviderFaultCaught == TRUE

\* lines 270-271 raise (the provider fails, or the derivation divides by a
\* zero filament_energy); lines 282-284 catch it and sleep
L_ProviderRaises(t) ==
    /\ pc[t] = "provider"
    /\ pc' = [pc EXCEPT ![t] = IF ProviderFaultCaught THEN "sleep_except"
                               ELSE "done"]
    /\ after_stop' = SleepBegins(t)
    /\ UNCHANGED << instances, thresholdVars, current_beta, beta_history, alert_status,
                    alert_callbacks, monitor_active, monitor_thread,
                    corrective_actions_history, calls, notified, ndirect, op,
                    loc >>

\* a loop that samples again after its sleep without testing the flag
L_WakeIntoProvider(t) ==
    /\ pc[t] \in {"sleep", "sleep_except"}
    /\ pc' = [pc EXCEPT ![t] = "provider"]
    /\ UNCHANGED << instances, thresholdVars, after_stop,
                    current_beta, beta_history, alert_status,
                    alert_callbacks, monitor_active, monitor_thread,
                    corrective_actions_history, calls, notified, ndirect, op,
                    loc >>

\* lines 280-281 and 284: time.sleep(interval) returns, back to line 268
L_Wake(t) ==
    /\ pc[t] \in {"sleep", "sleep_except"}
    /\ pc' = [pc EXCEPT ![t] = "test"]
    /\ UNCHANGED << instances, thresholdVars, after_stop,
                    current_beta, beta_history, alert_status,
                    alert_callbacks, monitor_active, monitor_thread,
                    corrective_actions_history, calls, notified, ndirect, op,
                    loc >>

\* one step of the sampling loop of thread t
SamplerStep(t) ==
    \/ L_Test(t)
    \/ \E v \in ThreadBetas : Len(calls) < MaxThreadCalls /\ L_Provider(t, v)
    \/ L_ProviderRaises(t)
    \/ L_Wake(t)
    \/ UpdateBetaStep(t)

\* the demo's monitor right after monitor.start_monitoring(provider) has
\* returned: the flag is set (line 264) and the first sampling thread is at
\* the top of its loop (lines 286-288)
InitSampling ==
    /\ InitDefault
    /\ monitor_active = TRUE
    /\ monitor_thread = 1
    /\ pc = [t \in Threads |-> IF t = Owner THEN "idle"
                                ELSE IF t = 1 THEN "test" ELSE "unborn"]

\* one sampling thread running beside the owning thread, which calls
\* update_beta itself and reads the monitor
NextThreads ==
    \/ \E t \in Samplers : SamplerStep(t)
    \/ UpdateBetaStep(Owner)
    \/ \E v \in ThreadBetas : Len(calls) < MaxThreadCalls /\ OwnerUpdateBeta(v)
    \/ ReadSnapshot

SpecThreads == InitSampling /\ [][NextThreads]_vars

\* the owning thread alone in update_beta, its callbacks reading the monitor
NextReentry ==
    \/ \E v \in ScenarioBetas : Len(calls) < MaxCalls /\ OwnerUpdateBeta(v)
    \/ UpdateBetaStep(Owner)
    \/ CallbackReadsMonitor

\* no statement of update_beta or of a callback waits for anything (there is
\* no lock): the owning thread, once in update_beta, keeps taking steps
SpecReentry ==
    InitStopped /\ [][NextReentry]_vars /\ WF_vars(UpdateBetaStep(Owner))

\* the owning thread starting and stopping the sampling thread(s)
NextLifecycle ==
    \/ \E t \in Samplers : SamplerStep(t)
    \/ StartMonitoring
    \/ StopMonitoring
    \/ JoinReturns
    \/ JoinTimesOut

SpecLifecycle == InitStopped /\ [][NextLifecycle]_vars

\* one step of the sampling loop of thread t over a provider whose state
\* stays in the emergency band
LoopStep(t) ==
    \/ L_Test(t)
    \/ \E v \in StopBetas : Len(calls) < MaxThreadCalls /\ L_Provider(t, v)
    \/ L_ProviderRaises(t)
    \/ L_Wake(t)
    \/ UpdateBetaStep(t)

\* one monitor started and stopped by its owner over that provider
NextStop ==
    \/ \E t \in Samplers : LoopStep(t)
    \/ StartMonitoring
    \/ StopMonitoring
    \/ JoinReturns
    \/ JoinTimesOut

SpecStop == InitStopped /\ [][NextStop]_vars

\* the same monitor when every sampling thread is scheduled again and again
\* and each of its provider calls, callbacks and sleeps returns (daemon
\* threads of lines 286-288, nothing in the loop waits for another thread)
SpecShutdown ==
    /\ InitStopped
    /\ [][NextStop]_vars
    /\ \A t \in Samplers : WF_vars(LoopStep(t))

\* ---------------------------------------------------- two instances
\* what the actions on the instances leave alone
singleVars == << thresholdVars, threadVars, current_beta, beta_history,
                 alert_status, alert_callbacks, corrective_actions_history,
                 calls, notified, ndirect, op >>

\* the lists instance i reaches through its attributes
HistoryOf(i) == instances.lists[ListOf(i, "beta_history")]
CallbacksOf(i) == instances.lists[ListOf(i, "alert_callbacks")]
LogOf(i) == instances.lists[ListOf(i, "corrective_actions_history")]

\* update_beta(new_beta) on monitor i, lines 215-242, run to its return
UpdateBetaOf(i, new_beta) ==
    LET a == instances.attrs[i]
        status == Classify(new_beta, a.emergency_threshold,
                           a.critical_threshold, a.alert_threshold)
        st0 == [log |-> LogOf(i), notified |-> << >>, raised |-> FALSE]
        st == IF StatusChanged(a.alert_status, status)
              THEN NotifyCallbacks(CallbacksOf(i), st0, status, new_beta,
                                   a.reference_beta)
              ELSE st0
    IN  [instances EXCEPT
            !.attrs[i].current_beta = new_beta,
            !.attrs[i].alert_status = status,
            !.lists = [[@ EXCEPT ![ListOf(i, "beta_history")] =
                                    AppendTrim(@, new_beta)]
                          EXCEPT ![ListOf(i, "corrective_actions_history")] =
                                    st.log],
            !.nops = @ + 1]

\* the owner calls m_i.update_beta(v)
I_UpdateBeta(i, v) ==
    /\ instances' = UpdateBetaOf(i, v)
    /\ UNCHANGED singleVars

\* m_i.register_alert_callback(callback), line 178
I_Register(i, kind) ==
    /\ instances' = [instances EXCEPT
                        !.lists[ListOf(i, "alert_callbacks")] = Append(@, kind),
                        !.nops = @ + 1]
    /\ UNCHANGED singleVars

\* c_i.apply_corrective_action(status, beta), lines 362-398
I_Apply(i, status, beta) ==
    /\ instances' = [instances EXCEPT
                        !.lists[ListOf(i, "corrective_actions_history")] =
                            ApplyCorrectiveActionLog(@, status, beta,
                                instances.attrs[i].reference_beta),
                        !.nops = @ + 1]
    /\ UNCHANGED singleVars

\* m_i.start_monitoring(provider), lines 252-289: a return when the flag is
\* set, else the flag is set and one more loop runs
I_Start(i) ==
    /\ instances' = IF instances.attrs[i].monitor_active
                    THEN [instances EXCEPT !.nops = @ + 1]
                    ELSE [instances EXCEPT !.attrs[i].monitor_active = TRUE,
                                           !.attrs[i].loops = @ + 1,
                                           !.nops = @ + 1]
    /\ UNCHANGED singleVars

\* m_i.stop_monitoring(), lines 291-296, to its return (by the end of the
\* loop or by the timeout of the join)
I_Stop(i) ==
    /\ instances' = [instances EXCEPT !.attrs[i].monitor_active = FALSE,
                                      !.nops = @ + 1]
    /\ UNCHANGED singleVars

\* one iteration of a loop of monitor i, lines 268-281: the flag is set, the
\* provider's value v goes to update_beta
I_Sample(i, v) ==
    /\ instances.attrs[i].loops > 0
    /\ instances.attrs[i].monitor_active
    /\ instances' = UpdateBetaOf(i, v)
    /\ UNCHANGED singleVars

\* line 268 finds the flag cleared: a loop of monitor i ends
I_LoopExit(i) ==
    /\ instances.attrs[i].loops > 0
    /\ ~instances.attrs[i].monitor_active
    /\ instances' = [instances EXCEPT !.attrs[i].loops = @ - 1,
                                      !.nops = @ + 1]
    /\ UNCHANGED singleVars

\* two monitors, each with its corrector, used by one owner and sampled by
\* their own loops
NextInstances ==
    \E i \in Instances :
        /\ instances.nops < MaxOps
        /\ \/ \E v \in InstanceBetas : I_UpdateBeta(i, v)
           \/ I_Register(i, "status_change_callback")
           \/ \E v \in InstanceBetas : I_Apply(i, "ALERT", v)
           \/ I_Start(i)
           \/ I_Stop(i)
           \/ \E v \in InstanceBetas : I_Sample(i, v)
           \/ I_LoopExit(i)

SpecInstances == InitStopped /\ [][NextInstances]_vars

\* ====================================================== sequential claims
IsUpdate == op.name = "update_beta"
LastCall == calls[Len(calls)]
DefaultThresholds ==
    /\ reference_beta = DefaultReference
    /\ alert_threshold = DefaultAlert
    /\ critical_threshold = DefaultCritical
    /\ emergency_threshold = DefaultEmergency
NonNormal == {"ALERT", "CRITICAL", "EMERGENCY"}
\* the step is an update_beta call
UpdateStep == Len(calls') = Len(calls) + 1

\* C1: after update_beta(v) the severity is EMERGENCY if v <= emergency
\* threshold, else CRITICAL if v <= critical threshold, else ALERT if
\* v <= alert threshold, else NORMAL, whatever the severity and the history
\* were before the call.
C1_SeverityFromValueOnly ==
    IsUpdate =>
        LET v == LastCall
            e == Leq(v, emergency_threshold)
            c == Leq(v, critical_threshold)
            a == Leq(v, alert_threshold)
        IN  /\ e => alert_status = "EMERGENCY"
            /\ (~e /\ c) => alert_status = "CRITICAL"
            /\ (~e /\ ~c /\ a) => alert_status = "ALERT"
            /\ (~e /\ ~c /\ ~a) => alert_status = "NORMAL"

\* C1 witness: the scenario [0.31, 0.04, -0.06, -0.20, 0.31] with the default
\* thresholds, ending in NORMAL after four notified transitions.
C1_Scenario ==
    /\ DefaultThresholds
    /\ IsUpdate
    /\ calls = << 310, 40, -60, -200, 310 >>
    /\ alert_status = "NORMAL"
    /\ [k \in 1..Len(notified) |-> notified[k].status]
          = << "ALERT", "CRITICAL", "EMERGENCY", "NORMAL" >>

\* number of invocations of the callback at index i recorded in log
Invocations(i, log) == Cardinality({k \in 1..Len(log) : log[k].cb = i})

\* C2: an update_beta call whose severity differs from the severity before
\* it invokes every registered callback exactly once, and a call that leaves
\* the severity unchanged invokes no callback; no other operation invokes one.
C2_OncePerTransition ==
    [][ LET n == IF UpdateStep /\ alert_status' # alert_status THEN 1 ELSE 0
        IN  /\ \A i \in 1..Len(alert_callbacks) :
                  Invocations(i, notified') = Invocations(i, notified) + n
            /\ Len(notified') = Len(notified) + n * Len(alert_callbacks) ]_vars

\* C2 witness: two callbacks, the same sub-threshold value fed three times
\* from NORMAL, one notification of each callback, made by the first call.
C2_RepeatedSample ==
    /\ calls = << 40, 40, 40 >>
    /\ Len(alert_callbacks) = 2
    /\ Len(notified) = 2
    /\ notified[1] = [cb |-> 1, status |-> "ALERT", beta |-> 40, sample |-> 40]
    /\ notified[2] = [cb |-> 2, status |-> "ALERT", beta |-> 40, sample |-> 40]

\* C3: on a transition with a raising callback registered, every callback
\* (those after the raising one included) is invoked, update_beta does not
\* raise, the new value is the current value and the newest history entry,
\* the new severity stays, and the callback list is unchanged.
C3_FaultIsolation ==
    [][ ( /\ UpdateStep
          /\ alert_status' # alert_status
          /\ \E i \in 1..Len(alert_callbacks) : alert_callbacks[i] = "faulty" )
        => /\ \A i \in 1..Len(alert_callbacks) :
                 \E k \in (Len(notified) + 1)..Len(notified') :
                     notified'[k].cb = i
           /\ ~op'.raised
           /\ current_beta' = calls'[Len(calls')]
           /\ beta_history'[Len(beta_history')] = calls'[Len(calls')]
           /\ alert_status' = Classify(calls'[Len(calls')], emergency_threshold,
                                       critical_threshold, alert_threshold)
           /\ alert_callbacks' = alert_callbacks ]_vars

\* C3 witness: a callback registered after the raising one has been invoked
\* on two transitions, the second one after the first fault.
C3_AfterFaulty ==
    /\ alert_callbacks = << "alert_handler", "faulty", "status_change_callback" >>
    /\ IsUpdate
    /\ ~op.raised
    /\ Invocations(2, notified) = 2
    /\ Invocations(3, notified) = 2
    /\ notified[Len(notified)].cb = 3

\* C4: the history holds at most Capacity samples, and they are the last
\* Capacity values passed to update_beta (all of them while there are fewer),
\* in call order.
C4_HistoryBounded ==
    /\ Len(beta_history) <= Capacity
    /\ beta_history = IF Len(calls) > Capacity
                      THEN SubSeq(calls, Len(calls) - Capacity + 1, Len(calls))
                      ELSE calls

\* C4 witness: more than Capacity calls were made, the evicted first value
\* differs from every value kept.
C4_Evicted ==
    /\ Len(calls) > Capacity
    /\ Len(beta_history) = Capacity
    /\ \A k \in 1..Len(beta_history) : beta_history[k] # calls[1]
    /\ beta_history[1] # beta_history[Len(beta_history)]

\* C5: with the corrector attached and the monitor driven through
\* update_beta, the correction log grows by exactly one entry on an update
\* that changes the severity to ALERT, CRITICAL or EMERGENCY (the entry holds
\* that severity and the sample), and is unchanged by every other step.
C5_CorrectionPerTransition ==
    [][ IF /\ UpdateStep
           /\ alert_status' # alert_status
           /\ alert_status' \in NonNormal
        THEN /\ Len(corrective_actions_history')
                    = Len(corrective_actions_history) + 1
             /\ SubSeq(corrective_actions_history', 1,
                       Len(corrective_actions_history))
                    = corrective_actions_history
             /\ LET e == corrective_actions_history'[
                             Len(corrective_actions_history')]
                IN  /\ e.alert_status = alert_status'
                    /\ e.beta_value = calls'[Len(calls')]
        ELSE corrective_actions_history' = corrective_actions_history ]_vars

\* C5 witness: EMERGENCY, a de-escalation to ALERT, a repeated ALERT sample
\* and a return to NORMAL leave exactly two entries, the second for ALERT.
C5_Deescalation ==
    /\ DefaultThresholds
    /\ calls = << -200, 40, 50, 310 >>
    /\ alert_status = "NORMAL"
    /\ Len(corrective_actions_history) = 2
    /\ corrective_actions_history[1].alert_status = "EMERGENCY"
    /\ corrective_actions_history[2].alert_status = "ALERT"
    /\ corrective_actions_history[2].beta_value = 40

\* C6: every entry of the correction log has a factor in [0, 1].
C6_FactorInUnitInterval ==
    \A k \in 1..Len(corrective_actions_history) :
        /\ 0 <= corrective_actions_history[k].correction_factor
        /\ corrective_actions_history[k].correction_factor <= FactorUnit

\* h hundredths times the factor f (in 1/FactorUnit), in 1/ParamUnit:
\* (h / 100) * (f / FactorUnit) = h * f / ParamUnit
Hundredths(h, f) == h * f

\* the parameters the table of the claim gives for an action kind and factor
TableParameters(kind, f) ==
    CASE kind = "GENTLE_CORRECTION" ->
           [void_energy_boost |-> Hundredths(10, f),
            lambda_adjustment |-> Hundredths(2, f),
            gamma_increase |-> Hundredths(5, f),
            stabilization_factor |-> ParamUnit + Hundredths(30, f)]
      [] kind = "STRONG_CORRECTION" ->
           [void_energy_boost |-> Hundredths(30, f),
            lambda_adjustment |-> Hundredths(5, f),
            gamma_increase |-> Hundredths(10, f),
            stabilization_factor |-> ParamUnit + Hundredths(70, f)]
      [] kind = "EMERGENCY_RESET" ->
           [void_energy_boost |-> Hundredths(50, f),
            lambda_adjustment |-> Hundredths(10, f),
            gamma_increase |-> Hundredths(20, f),
            stabilization_factor |-> ParamUnit + Hundredths(100, f)]

\* C7: get_correction_parameters returns {0, 0, 0, 1.0} on an empty log and
\* otherwise the row of the table for the last entry's action kind and
\* factor, whatever the earlier entries are; an EMERGENCY entry for a
\* deviation of 0.51 gives {0.5, 0.1, 0.2, 2.0}.
C7_ParametersOfLastAction ==
    op.name = "get_correction_parameters" =>
        LET log == corrective_actions_history
            last == log[Len(log)]
        IN  /\ log = << >> =>
                  op.result = << [void_energy_boost |-> 0,
                                  lambda_adjustment |-> 0,
                                  gamma_increase |-> 0,
                                  stabilization_factor |-> ParamUnit] >>
            /\ log # << >> =>
                  op.result = << TableParameters(last.action,
                                                 last.correction_factor) >>
            /\ ( /\ log # << >>
                 /\ last.alert_status = "EMERGENCY"
                 /\ last.beta_value # NaN
                 /\ reference_beta - last.beta_value = 510 )
               => op.result = << [void_energy_boost |-> ParamUnit \div 2,
                                  lambda_adjustment |-> ParamUnit \div 10,
                                  gamma_increase |-> ParamUnit \div 5,
                                  stabilization_factor |-> 2 * ParamUnit] >>

\* C7 witness: the parameters read after a GENTLE entry followed by the
\* EMERGENCY entry of the scenario (reference 0.31, value -0.20).
C7_EmergencyScenario ==
    /\ op.name = "get_correction_parameters"
    /\ Len(corrective_actions_history) = 2
    /\ corrective_actions_history[1].action = "GENTLE_CORRECTION"
    /\ corrective_actions_history[2].alert_status = "EMERGENCY"
    /\ corrective_actions_history[2].beta_value = -200
    /\ reference_beta = 310
    /\ op.result = << [void_energy_boost |-> ParamUnit \div 2,
                       lambda_adjustment |-> ParamUnit \div 10,
                       gamma_increase |-> ParamUnit \div 5,
                       stabilization_factor |-> 2 * ParamUnit] >>

\* ====================================================== concurrency claims
\* the locations of a thread inside update_beta
InUpdate == {"u_current", "u_append", "u_len", "u_slice", "u_store", "u_prev",
             "u_classify", "u_changed", "n_status", "n_call"}

\* no update_beta call is in progress
Quiescent == \A t \in Threads : pc[t] \notin InUpdate

\* the monitor as constructed
InitialMonitor ==
    [current |-> reference_beta, history |-> << >>, status |-> "NORMAL",
     log |-> << >>, notified |-> << >>]

\* the monitor after the calls of `calls`, taken in the order `order`, each
\* run to its end before the next starts
RECURSIVE SerialRun(_, _, _)
SerialRun(m, order, k) ==
    IF k > Len(calls) THEN m
    ELSE SerialRun(UpdateBetaResult(m, calls[order[k]]), order, k + 1)

Occurrences(x, sq) == Cardinality({k \in 1..Len(sq) : sq[k] = x})

SameBag(s1, s2) ==
    /\ Len(s1) = Len(s2)
    /\ \A k \in 1..Len(s1) : Occurrences(s1[k], s1) = Occurrences(s1[k], s2)

\* C8: once the update_beta calls made by the sampling thread and the owning
\* thread have all returned, the history, the severity and the notifications
\* made are those of the same calls run one after the other in some order.
C8_Serializable ==
    Quiescent =>
        \E order \in Permutations(1..Len(calls)) :
            LET m == SerialRun(InitialMonitor, order, 1)
            IN  /\ m.history = beta_history
                /\ m.status = alert_status
                /\ SameBag(m.notified, notified)

\* C9: what a reader gets when it reads the current value, the severity and
\* the history while the sampling thread runs is the initial state or a
\* state in which the severity classifies the current value and the current
\* value is the newest history entry.
C9_ConsistentSnapshot ==
    op.name = "read" =>
        LET s == op.result[1]
        IN  \/ /\ s.current = reference_beta
               /\ s.status = "NORMAL"
               /\ s.history = << >>
            \/ /\ s.status = Classify(s.current, emergency_threshold,
                                      critical_threshold, alert_threshold)
               /\ s.history # << >>
               /\ s.history[Len(s.history)] = s.current

\* the sampling threads whose loop has started and has not ended
AliveLoops == {t \in Samplers : pc[t] \notin {"unborn", "done"}}

\* C10: whenever start_monitoring or stop_monitoring has returned, at most
\* one sampling loop is alive.
C10_SingleLoop ==
    pc[Owner] = "idle" => Cardinality(AliveLoops) <= 1

\* ======================================================= lifecycle claims
\* the owning thread's wait in stop_monitoring ends with this step
StopReturns == pc[Owner] = "join" /\ pc'[Owner] = "idle"

\* C11: when a stop_monitoring call that directly follows a
\* start_monitoring call returns, no sampling loop of the monitor is alive.
C11_StopAfterStart ==
    [][ (StopReturns /\ op.name = "start_monitoring")
        => AliveLoops' = {} ]_vars

\* the owning thread's stop_monitoring starts waiting with this step
StopBegins == pc[Owner] = "idle" /\ pc'[Owner] = "join"

\* C12: stop_monitoring clears the flag before it waits; its wait can end
\* while the loop is in the provider or asleep; when the wait ends, by the
\* loop's exit or by the timeout, stop_monitoring returns without raising and
\* the flag is still cleared, and the return is a timeout exactly when the
\* loop has not exited.
C12_StopReturnsNormally ==
    [][ /\ StopBegins => ~monitor_active'
        /\ ( /\ pc[Owner] = "join"
             /\ pc[monitor_thread] \in {"provider", "sleep", "sleep_except"} )
           => ENABLED JoinTimesOut
        /\ StopReturns
           => /\ op'.name = "stop_monitoring"
              /\ ~op'.raised
              /\ ~monitor_active'
              /\ (op'.result = << "timeout" >>)
                    <=> (pc'[monitor_thread] # "done") ]_vars

\* C12 witness: stop_monitoring has returned after a timed-out wait, the loop
\* asleep after a sample, the flag cleared.
C12_TimedOut ==
    /\ op = [name |-> "stop_monitoring", args |-> << >>,
             raised |-> FALSE,
             result |-> << "timeout" >>]
    /\ pc[Owner] = "idle"
    /\ ~monitor_active
    /\ pc[monitor_thread] = "sleep"
    /\ Len(calls) = 1

\* C13: every iteration of a sampling loop starts with a test of the flag
\* that finds it set, a test that finds it cleared ends the loop, and a loop
\* begins at most one update_beta call and at most one sleep while the flag
\* stays cleared.
C13_CooperativeStop ==
    [][ \A t \in Samplers :
          /\ (pc'[t] = "provider" /\ pc[t] # "provider")
                => (pc[t] = "test" /\ monitor_active)
          /\ (pc[t] = "test" /\ pc'[t] # "test" /\ ~monitor_active)
                => pc'[t] = "done"
          /\ after_stop'[t].updates <= 1
          /\ after_stop'[t].sleeps <= 1 ]_vars

\* C13 witness: the loop was past its test when the flag was cleared; it made
\* one more update_beta call, slept once more, and ended at its next test.
C13_InFlightIteration ==
    /\ ~monitor_active
    /\ pc[Owner] = "idle"
    /\ pc[1] = "done"
    /\ after_stop[1] = [updates |-> 1, sleeps |-> 1]

\* C14: while a sampling loop of the monitor is running, no step (so no
\* start_monitoring call) creates a thread or replaces monitor_thread.
C14_StartIdempotent ==
    [][ AliveLoops # {}
        => /\ \A t \in Samplers : pc[t] = "unborn" => pc'[t] = "unborn"
           /\ monitor_thread' = monitor_thread ]_vars

\* C15: a step in which the provider call of a loop fails takes the loop to
\* the sleep of its except clause and leaves the current value, the history,
\* the severity, the notifications made, the calls made and the correction
\* log as they were; from that sleep the loop goes back to its test, a test
\* that finds the flag set goes to the provider again, and a loop ends only
\* at a test that finds the flag cleared.
C15_ProviderFaultSkipsTick ==
    [][ \A t \in Samplers :
          /\ (pc[t] = "provider" /\ pc'[t] \notin {"provider", "u_current"})
                => /\ pc'[t] = "sleep_except"
                   /\ UNCHANGED << current_beta, beta_history, alert_status,
                                   notified, calls,
                                   corrective_actions_history >>
          /\ (pc[t] = "sleep_except" /\ pc'[t] # "sleep_except")
                => pc'[t] = "test"
          /\ (pc[t] = "test" /\ pc'[t] # "test" /\ monitor_active)
                => pc'[t] = "provider"
          /\ (pc'[t] = "done" /\ pc[t] # "done")
                => (pc[t] = "test" /\ ~monitor_active) ]_vars

\* C15 witness: the provider failed in the iteration after a sample that
\* raised the severity; the loop sleeps in its except clause, the monitor
\* still holds that sample and that severity, one notification was made.
C15_FaultAfterSample ==
    /\ monitor_active
    /\ pc[1] = "sleep_except"
    /\ calls = << -200 >>
    /\ current_beta = -200
    /\ beta_history = << -200 >>
    /\ alert_status = "EMERGENCY"
    /\ Len(notified) = 1

\* ================================================== fault-handling claims
\* C16: an update_beta call with NaN leaves the severity as it was, makes no
\* notification, and records NaN as the newest history entry.
C16_InvalidSampleKeepsSeverity ==
    [][ (UpdateStep /\ calls'[Len(calls')] = NaN)
        => /\ alert_status' = alert_status
           /\ notified' = notified
           /\ beta_history'[Len(beta_history')] = NaN ]_vars

\* C17: a monitor that has accepted an update_beta call has thresholds with
\* emergency < critical < alert < reference.
C17_ThresholdsOrdered ==
    IsUpdate => /\ emergency_threshold < critical_threshold
                /\ critical_threshold < alert_threshold
                /\ alert_threshold < reference_beta

\* ==================================================== notification claims
\* the notifications made by the step
NewNotifications == SubSeq(notified', Len(notified) + 1, Len(notified'))

\* C18: registration appends to the end of the callback list and keeps what
\* was there, whether or not the callable is already in the list; an update
\* that changes the severity invokes the list positions 1, 2, ... in that
\* order, so that each callable is invoked as many times as it is in the list.
C18_RegistrationOrder ==
    [][ /\ alert_callbacks' # alert_callbacks
           => /\ Len(alert_callbacks') = Len(alert_callbacks) + 1
              /\ SubSeq(alert_callbacks', 1, Len(alert_callbacks))
                    = alert_callbacks
        /\ (UpdateStep /\ alert_status' # alert_status)
           => /\ Len(NewNotifications) = Len(alert_callbacks)
              /\ \A k \in 1..Len(NewNotifications) : NewNotifications[k].cb = k
              /\ \A f \in CallbackKinds :
                    Cardinality({k \in 1..Len(NewNotifications) :
                                    alert_callbacks[NewNotifications[k].cb] = f})
                       = Occurrences(f, alert_callbacks) ]_vars

\* C18 witness: the demo's callback registered twice after the corrector's
\* handler, and one transition that invoked the three positions in order.
C18_RegisteredTwice ==
    /\ alert_callbacks = << "alert_handler", "status_change_callback",
                            "status_change_callback" >>
    /\ IsUpdate
    /\ Len(calls) = 1
    /\ [k \in 1..Len(notified) |-> notified[k].cb] = << 1, 2, 3 >>

\* C19: every callback invocation made by an update_beta(v) call passes v
\* and the severity that classifies v.
C19_ArgumentsOfTransition ==
    \A k \in 1..Len(notified) :
        /\ notified[k].beta = notified[k].sample
        /\ notified[k].status = Classify(notified[k].sample,
                                         emergency_threshold,
                                         critical_threshold, alert_threshold)

\* C20: when update_beta(v) has returned to the only thread using the
\* monitor, v is the current value and the newest history entry.
C20_EveryUpdateRecorded ==
    IsUpdate => /\ current_beta = LastCall
                /\ beta_history # << >>
                /\ beta_history[Len(beta_history)] = LastCall

\* C20 witness: a monitor with no callback; the second sample has the
\* severity of the first, is the current value and the newest entry.
C20_SameSeverityNoCallback ==
    /\ alert_callbacks = << >>
    /\ IsUpdate
    /\ calls = << 40, 50 >>
    /\ alert_status = "ALERT"
    /\ current_beta = 50
    /\ beta_history = << 40, 50 >>
    /\ notified = << >>

\* ====================================================== corrector claims
\* the divisor and the cap (in 1/FactorUnit) the claim gives for a severity
DivisorOf(s) ==
    CASE s = "ALERT" -> 800 [] s = "CRITICAL" -> 600 [] s = "EMERGENCY" -> 500
CapOf(s) ==
    CASE s = "ALERT" -> (3 * FactorUnit) \div 10
      [] s = "CRITICAL" -> (7 * FactorUnit) \div 10
      [] s = "EMERGENCY" -> FactorUnit

\* f / FactorUnit = min(cap / FactorUnit, (deviation / 1000) / (divisor / 1000))
IsMinOfCapAndQuotient(f, cap, deviation, divisor) ==
    IF deviation * FactorUnit >= cap * divisor
    THEN f = cap
    ELSE f * divisor = deviation * FactorUnit

\* C21: apply_corrective_action(s, v) appends an entry that stores s and v
\* and returns the entry's factor; in every entry of severity ALERT, CRITICAL
\* or EMERGENCY for a number v the factor is min(0.3, deviation / 0.8),
\* min(0.7, deviation / 0.6) or min(1.0, deviation / 0.5), deviation being
\* reference - v (for v = NaN the min of the source evaluates to the cap).
C21_FactorFormula ==
    LET log == corrective_actions_history
    IN  /\ op.name = "apply_corrective_action"
           => /\ log[Len(log)].alert_status = op.args[1]
              /\ log[Len(log)].beta_value = op.args[2]
              /\ op.result = << log[Len(log)].correction_factor >>
        /\ \A k \in 1..Len(log) :
              log[k].alert_status \in NonNormal
              => IF log[k].beta_value = NaN
                 THEN log[k].correction_factor = CapOf(log[k].alert_status)
                 ELSE IsMinOfCapAndQuotient(log[k].correction_factor,
                                            CapOf(log[k].alert_status),
                                            reference_beta - log[k].beta_value,
                                            DivisorOf(log[k].alert_status))

\* C21 witness: with reference 0.31, an ALERT entry for 0.04 whose quotient
\* 0.3375 is capped at 0.3, then an EMERGENCY entry for -0.15 whose quotient
\* 0.92 is below its cap.
C21_CappedAndUncapped ==
    /\ op.name = "apply_corrective_action"
    /\ op.args = << "EMERGENCY", -150 >>
    /\ reference_beta = 310
    /\ Len(corrective_actions_history) = 2
    /\ corrective_actions_history[1].alert_status = "ALERT"
    /\ corrective_actions_history[1].beta_value = 40
    /\ 10 * corrective_actions_history[1].correction_factor = 3 * FactorUnit
    /\ 100 * corrective_actions_history[2].correction_factor = 92 * FactorUnit

\* C22: in every entry of the correction log the action is GENTLE_CORRECTION
\* exactly for ALERT, STRONG_CORRECTION exactly for CRITICAL, EMERGENCY_RESET
\* exactly for EMERGENCY, and the severity is not NORMAL.
C22_ActionMatchesSeverity ==
    \A k \in 1..Len(corrective_actions_history) :
        LET e == corrective_actions_history[k]
        IN  /\ e.action = "GENTLE_CORRECTION" <=> e.alert_status = "ALERT"
            /\ e.action = "STRONG_CORRECTION" <=> e.alert_status = "CRITICAL"
            /\ e.action = "EMERGENCY_RESET" <=> e.alert_status = "EMERGENCY"
            /\ e.alert_status # "NORMAL"

\* ======================================================== history claims
\* the most recent min(w, size) entries of h, oldest first
MostRecent(h, w) == SubSeq(h, Len(h) - Min(w, Len(h)) + 1, Len(h))

\* C23: the window visualize_beta_history(w) takes of the history is its
\* most recent min(w, size) samples, oldest first.
C23_WindowedRead ==
    op.name = "visualize_beta_history"
        => op.result = << MostRecent(beta_history, op.args[1]) >>

\* ================================================= classification claims
\* the thresholds delimit bands: emergency < critical < alert
OrderedBands ==
    emergency_threshold < critical_threshold
        /\ critical_threshold < alert_threshold

\* C24 as stated: after update_beta(v) for a number v, the severity is NORMAL
\* when v >= alert threshold, ALERT when critical < v <= alert, CRITICAL
\* when emergency < v <= critical, EMERGENCY when v <= emergency.
C24_BandsAsStated ==
    (IsUpdate /\ LastCall # NaN /\ OrderedBands) =>
        LET v == LastCall
        IN  /\ v >= alert_threshold => alert_status = "NORMAL"
            /\ (critical_threshold < v /\ v <= alert_threshold)
                  => alert_status = "ALERT"
            /\ (emergency_threshold < v /\ v <= critical_threshold)
                  => alert_status = "CRITICAL"
            /\ v <= emergency_threshold => alert_status = "EMERGENCY"

\* C24, amended: after update_beta(v) for a number v, the severity is NORMAL
\* when v > alert threshold, ALERT when critical < v <= alert, CRITICAL when
\* emergency < v <= critical, EMERGENCY when v <= emergency.
C24_Bands ==
    (IsUpdate /\ LastCall # NaN /\ OrderedBands) =>
        LET v == LastCall
        IN  /\ v > alert_threshold => alert_status = "NORMAL"
            /\ (critical_threshold < v /\ v <= alert_threshold)
                  => alert_status = "ALERT"
            /\ (emergency_threshold < v /\ v <= critical_threshold)
                  => alert_status = "CRITICAL"
            /\ v <= emergency_threshold => alert_status = "EMERGENCY"

\* C24 witness: a sample equal to the alert threshold, classified ALERT.
C24_AtAlertThreshold ==
    /\ IsUpdate
    /\ OrderedBands
    /\ LastCall = alert_threshold
    /\ alert_status = "ALERT"

\* ============================================================ instances
\* what instance i is: its monitor's attributes and the contents of the
\* lists its monitor and its corrector name
InstanceState(i) ==
    [attrs |-> instances.attrs[i], beta_history |-> HistoryOf(i),
     alert_callbacks |-> CallbacksOf(i),
     corrective_actions_history |-> LogOf(i)]

\* C25: every step (an update_beta, register_alert_callback,
\* start_monitoring, stop_monitoring or apply_corrective_action call on one
\* instance, or a step of one instance's sampling loop) leaves the current
\* value, severity, history, callback list, running flag and correction log
\* of the other instance unchanged.
C25_InstancesIndependent ==
    [][ \E i \in Instances :
          \A j \in Instances \ {i} : InstanceState(j)' = InstanceState(j) ]_vars

\* C25 witness: the first monitor is running, in EMERGENCY after one sample,
\* with one correction; the second, with a second callback, is stopped and
\* NORMAL after one sample, with no correction.
C25_DivergedInstances ==
    /\ instances.attrs[1].monitor_active
    /\ instances.attrs[1].alert_status = "EMERGENCY"
    /\ HistoryOf(1) = << -200 >>
    /\ Len(LogOf(1)) = 1
    /\ CallbacksOf(1) = << "alert_handler" >>
    /\ ~instances.attrs[2].monitor_active
    /\ instances.attrs[2].alert_status = "NORMAL"
    /\ HistoryOf(2) = << 50 >>
    /\ LogOf(2) = << >>
    /\ CallbacksOf(2) = << "alert_handler", "status_change_callback" >>

\* ============================================================= re-entry
\* C26: a callback that reads the monitor while it is being notified of a
\* transition finds the triggering sample as the current value and as the
\* newest history entry and finds the severity of that sample; and every
\* update_beta call, its callbacks included, runs to its return.
C26_CommittedBeforeCallbacks ==
    /\ [](op.name = "read" =>
            LET s == op.result[1]
            IN  /\ s.current = LastCall
                /\ s.status = Classify(LastCall, emergency_threshold,
                                       critical_threshold, alert_threshold)
                /\ s.history # << >>
                /\ s.history[Len(s.history)] = LastCall)
    /\ (pc[Owner] \in InUpdate) ~> (pc[Owner] = "idle")

\* C26 witness: the corrector's handler, called for the transition to
\* EMERGENCY of the second sample, has read the monitor.
C26_ReadDuringNotification ==
    /\ pc[Owner] = "n_call"
    /\ calls = << 310, -200 >>
    /\ op.name = "read"
    /\ op.result = << [current |-> -200, status |-> "EMERGENCY",
                       history |-> << 310, -200 >>] >>

\* ============================================================= shutdown
\* C27: when the flag stays cleared from some point on (stop_monitoring was
\* called and start_monitoring is not called afterwards), every sampling loop
\* eventually has exited for good, so that update_beta is not called by a
\* loop again; and when the flag stays set from some point on, the thread
\* started last calls the provider again and again, a thread reaching the
\* provider call only through the loop's test and the test only when it is
\* started or when a sleep returns.
C27_ShutdownLiveness ==
    /\ (<>[](~monitor_active))
          => <>[](\A t \in Samplers : pc[t] \in {"unborn", "done"})
    /\ (<>[]monitor_active)
          => []<>(monitor_thread \in Samplers
                    /\ pc[monitor_thread] = "provider")
    /\ [][ \A t \in Samplers :
          /\ (pc'[t] = "provider" /\ pc[t] # "provider")
                => pc[t] = "test"
          /\ (pc'[t] = "test" /\ pc[t] # "test")
                => pc[t] \in {"unborn", "sleep", "sleep_except"} ]_vars

\* C27 witness: stop_monitoring returned after its timeout with the thread
\* still running; the thread then found the flag cleared and ended.
C27_ExitedAfterTimeout ==
    /\ ~monitor_active
    /\ pc[Owner] = "idle"
    /\ op.name = "stop_monitoring"
    /\ op.result = << "timeout" >>
    /\ monitor_thread = 1
    /\ pc[1] = "done"
    /\ pc[2] = "unborn"
    /\ after_stop[1].sleeps = 1

\* ======================================================= correction log
\* the monitor's attributes
monitorState ==
    << reference_beta, alert_threshold, critical_threshold,
       emergency_threshold, current_beta, beta_history, alert_status,
       alert_callbacks, monitor_active, monitor_thread >>

\* C28: every step keeps the entries the correction log already has, in
\* their places and unmodified; a get_correction_parameters call leaves the
\* log and the monitor's attributes as they were; and a second call right
\* after a first returns the same parameters.
C28_LogAppendOnly ==
    [][ /\ Len(corrective_actions_history')
              >= Len(corrective_actions_history)
        /\ SubSeq(corrective_actions_history', 1,
                  Len(corrective_actions_history))
              = corrective_actions_history
        /\ (op'.name = "get_correction_parameters" /\ calls' = calls)
              => /\ corrective_actions_history' = corrective_actions_history
                 /\ monitorState' = monitorState
        /\ (op.name = "get_correction_parameters"
              /\ op'.name = "get_correction_parameters")
              => op'.result = op.result ]_vars

\* C28 witness: the parameters were read from a log of two entries, the
\* EMERGENCY one of the first sample still in front of the CRITICAL one.
C28_ReadOfTwoEntryLog ==
    /\ DefaultThresholds
    /\ calls = << -200, -60 >>
    /\ op.name = "get_correction_parameters"
    /\ Len(corrective_actions_history) = 2
    /\ corrective_actions_history[1].alert_status = "EMERGENCY"
    /\ corrective_actions_history[2].alert_status = "CRITICAL"

\* ================================================== parameters at NORMAL
\* the entries of a log that were recorded for a severity other than NORMAL
NonNormalEntries(log) ==
    SelectSeq(log, LAMBDA entry : entry.alert_status # "NORMAL")

\* lines 404-409: what get_correction_parameters returns for an empty log
NeutralParameters ==
    [void_energy_boost |-> 0, lambda_adjustment |-> 0,
     gamma_increase |-> 0, stabilization_factor |-> ParamUnit]

\* C29: whatever the severity is by now, get_correction_parameters returns
\* the parameters of the last corrective action taken for a severity other
\* than NORMAL, and it returns the neutral default only when the correction
\* log is empty.
C29_NormalKeepsParameters ==
    op.name = "get_correction_parameters" =>
        LET log == corrective_actions_history
        IN  /\ NonNormalEntries(log) # << >>
                  => op.result = << CorrectionParameters(NonNormalEntries(log)) >>
            /\ op.result = << NeutralParameters >> => log = << >>

\* ===================================================== bounded factors
\* the precondition of C30 on the monitor's thresholds
OrderedBelowReference ==
    OrderedBands /\ alert_threshold < reference_beta

=============================================================================
